---- MODULE Spec2Model ----
(***************************************************************************)
(* Model of pylint_django/transforms/foreignkey.py: the inference tip      *)
(* infer_key_classes, which resolves the target of a ForeignKey or         *)
(* OneToOneField call, and the helpers it calls.                           *)
(*                                                                         *)
(* A Python string is a sequence of chunks ("app", ".", "models", ...).    *)
(* No chunk is a suffix of another one, so str.endswith and str.rpartition *)
(* on the chunk sequences agree with the character-level operations.       *)
(***************************************************************************)
EXTENDS Integers, Sequences, FiniteSets, TLC

VARIABLES
    node,           \* the Call node: [args, keywords]
    modules,        \* importable modules: module name -> (name -> lookup result)
    registry,       \* what django's app registry answers
    astroid_cache,  \* MANAGER.astroid_cache, module names in enumeration order
    pc,             \* position in infer_key_classes
    all_args,       \* chain(node.args, keyword_args)
    i,              \* index of the current candidate in all_args
    key_cls,        \* local variable key_cls
    module_name,    \* local variable module_name
    model_name,     \* local variable model_name
    snapshot,       \* list(MANAGER.astroid_cache.values())
    j,              \* index of the current module in snapshot
    outcome,        \* how the call ended
    log             \* history of what was examined, in order

vars == <<node, modules, registry, astroid_cache, pc, all_args, i, key_cls,
          module_name, model_name, snapshot, j, outcome, log>>

(***************************************************************************)
(* Bounds                                                                  *)
(***************************************************************************)
MaxArgs == 2
MaxKeywords == 1
MaxDepth == 3

(***************************************************************************)
(* Strings                                                                 *)
(***************************************************************************)
Dot == "."
Models == <<"models">>
SelfStr == <<"self">>
EmptyStr == <<>>

endswith(s, suffix) ==
    /\ Len(suffix) <= Len(s)
    /\ SubSeq(s, Len(s) - Len(suffix) + 1, Len(s)) = suffix

LastIndex(s, sep) ==
    LET I == {k \in 1..Len(s) : s[k] = sep}
    IN  IF I = {} THEN 0 ELSE CHOOSE k \in I : \A l \in I : l <= k

FirstIndex(s, sep) ==
    LET I == {k \in 1..Len(s) : s[k] = sep}
    IN  IF I = {} THEN 0 ELSE CHOOSE k \in I : \A l \in I : k <= l

\* str.partition: splits at the first separator
partition(s, sep) ==
    LET k == FirstIndex(s, sep)
    IN  IF k = 0 THEN <<EmptyStr, EmptyStr, s>>
        ELSE <<SubSeq(s, 1, k - 1), <<sep>>, SubSeq(s, k + 1, Len(s))>>

\* str.rpartition: splits at the last separator
rpartition(s, sep) ==
    LET k == LastIndex(s, sep)
    IN  IF k = 0 THEN <<EmptyStr, EmptyStr, s>>
        ELSE <<SubSeq(s, 1, k - 1), <<sep>>, SubSeq(s, k + 1, Len(s))>>

StrValue(s) == [type |-> "str", chars |-> s]
IntValue == [type |-> "int", chars |-> EmptyStr]

(***************************************************************************)
(* Modules, classes and syntax tree nodes                                  *)
(***************************************************************************)
AppModels == <<"app", ".", "models">>
MyAppModels == <<"my", "app", ".", "models">>
AppBase == <<"app", ".", "base">>
ModuleNames == {AppModels, MyAppModels, AppBase}

NameA == <<"A">>
NameB == <<"B">>
ClassNames == {NameA, NameB}

\* what module.lookup(name)[1] holds
ClassDefNode(isModel) == [type |-> "ClassDef", model |-> isModel, modname |-> EmptyStr]
ImportFromNode(target) == [type |-> "ImportFrom", model |-> FALSE, modname |-> target]

BindingLists ==
    {<<>>, <<ClassDefNode(TRUE)>>, <<ClassDefNode(FALSE)>>,
     <<ImportFromNode(AppBase), ClassDefNode(TRUE)>>}
    \cup {<<ImportFromNode(t)>> : t \in ModuleNames}

\* a class object: the k-th statement binding name n in module m
ClassObject(m, n, k, isModel) == [mod |-> m, name |-> n, idx |-> k, model |-> isModel]

\* the call site: a field of class A in module app.models
CurrentModuleName == AppModels
EnclosingClass == ClassObject(CurrentModuleName, NameA, 1, TRUE)
EnclosingClassDef == [type |-> "ClassDef", name |-> NameA]
Frames == <<EnclosingClassDef, [type |-> "Module", name |-> CurrentModuleName]>>

\* the class a Name or Attribute argument is inferred to
InferredClass == ClassObject(AppBase, <<"K">>, 1, TRUE)

InferenceError == [kind |-> "InferenceError"]
InferEmpty == [kind |-> "empty"]
InferValue(c) == [kind |-> "value", cls |-> c]

NameNode(res) == [type |-> "Name", inferred |-> res, value |-> IntValue]
AttributeNode(res) == [type |-> "Attribute", inferred |-> res, value |-> IntValue]
ConstNode(v) == [type |-> "Const", inferred |-> InferEmpty, value |-> v]
LambdaNode == [type |-> "Lambda", inferred |-> InferEmpty, value |-> IntValue]

StringConsts ==
    {ConstNode(StrValue(SelfStr)),
     ConstNode(StrValue(NameB)),
     ConstNode(StrValue(<<"app", ".", "models", ".", "B">>)),
     ConstNode(StrValue(<<"app", ".", "B">>))}

ArgNodes ==
    StringConsts
    \cup {ConstNode(IntValue), LambdaNode,
          NameNode(InferenceError), NameNode(InferEmpty),
          AttributeNode(InferValue(InferredClass))}

KeywordValues ==
    {ConstNode(StrValue(SelfStr)), ConstNode(StrValue(NameB)),
     ConstNode(IntValue), NameNode(InferValue(InferredClass))}

ToKw == "to"
KeywordNames == {ToKw, "on_delete"}
KeywordNode(a, v) == [type |-> "Keyword", arg |-> a, value |-> v]
Keywords == {KeywordNode(a, v) : a \in KeywordNames, v \in KeywordValues}

SeqsUpTo(S, n) == UNION {[1..k -> S] : k \in 0..n}

CallNode(args, kws) == [type |-> "Call", args |-> args, keywords |-> kws]
AssignNode == [type |-> "Assign"]

(***************************************************************************)
(* Results                                                                 *)
(***************************************************************************)
Unbound == [kind |-> "unbound"]
NoneValue == [kind |-> "None"]
Value(c) == [kind |-> "value", cls |-> c]

NoOutcome == [kind |-> "none"]
Raised(e) == [kind |-> "raise", exc |-> e]
instantiate_class(c) == [instance_of |-> c]
Returned(c) == [kind |-> "return", value |-> <<instantiate_class(c)>>]

(***************************************************************************)
(* Argument extraction                                                     *)
(***************************************************************************)
\* a candidate argument with its ancestors (arg.parent, arg.parent.parent, ...)
Candidate(n, ancestors) == [node |-> n, parents |-> ancestors]

keyword_args_all(kws) == kws

\* [kw.value for kw in node.keywords if kw.arg == "to"], each with its Keyword
keyword_args(kws) == SelectSeq(kws, LAMBDA kw : kw.arg = ToKw)

chain(n) ==
    LET kwargs == keyword_args(n.keywords)
        call == [type |-> "Call"]
    IN  [k \in 1..(Len(n.args) + Len(kwargs)) |->
            IF k <= Len(n.args)
            THEN Candidate(n.args[k], <<call, AssignNode, EnclosingClassDef>>)
            ELSE Candidate(kwargs[k - Len(n.args)].value,
                           <<[type |-> "Keyword", arg |-> kwargs[k - Len(n.args)].arg],
                             call, AssignNode, EnclosingClassDef>>)]

(***************************************************************************)
(* Classification of a Const argument                                      *)
(***************************************************************************)
AttributeErrorResult == [err |-> TRUE, module_name |-> EmptyStr, model_name |-> EmptyStr]
Classified(mod, model) == [err |-> FALSE, module_name |-> mod, model_name |-> model]

\* x.name: only some nodes have a name
NameOf(ancestors, k) ==
    IF k <= Len(ancestors) /\ "name" \in DOMAIN ancestors[k]
    THEN Classified(EmptyStr, ancestors[k].name)
    ELSE AttributeErrorResult

Classify(arg) ==
    IF arg.node.value = StrValue(SelfStr)
    THEN IF arg.parents[1].type = "Keyword" /\ arg.parents[1].arg = ToKw
         THEN NameOf(arg.parents, 4)
         ELSE NameOf(arg.parents, 3)
    ELSE IF arg.node.value.type = "str"
         THEN LET p == rpartition(arg.node.value.chars, Dot)
              IN  Classified(p[1], p[3])
         ELSE AttributeErrorResult

(***************************************************************************)
(* Module hint                                                             *)
(***************************************************************************)
RECURSIVE current_module(_)
current_module(k) ==
    IF Frames[k].type = "Module" THEN Frames[k] ELSE current_module(k + 1)

RegisteredModule == MyAppModels

\* _module_name_from_django_model_resolution, with the exceptions it lets out
module_name_from_django_model_resolution(model, app_label) ==
    IF registry = "ImproperlyConfigured" THEN [kind |-> "ImproperlyConfigured", module |-> EmptyStr]
    ELSE IF registry = "found" /\ app_label = <<"app">> /\ model \in ClassNames
         THEN [kind |-> "ok", module |-> RegisteredModule]
         ELSE [kind |-> "LookupError", module |-> EmptyStr]

NeedsRegistry(mod) == mod # EmptyStr /\ ~endswith(mod, Models)

RegistryAbsorbLookupErrors(model, app_label) ==
    LET r == module_name_from_django_model_resolution(model, app_label)
    IN  IF r.kind = "ok" THEN [fatal |-> FALSE, module_name |-> r.module]
        ELSE [fatal |-> FALSE, module_name |-> app_label \o <<Dot>> \o Models]

\* lines 104-116: the try around the registry lookup
ResolveByRegistry(model, app_label) ==
    LET r == module_name_from_django_model_resolution(model, app_label)
    IN  IF r.kind = "ok" THEN [fatal |-> FALSE, module_name |-> r.module]
        ELSE IF r.kind = "LookupError"
             THEN [fatal |-> FALSE, module_name |-> app_label \o <<Dot>> \o Models]
             ELSE [fatal |-> TRUE, module_name |-> app_label]

(***************************************************************************)
(* _get_model_class_defs_from_module                                       *)
(***************************************************************************)
lookup(m, name) == modules[m][name]
InLocals(m, name) == modules[m][name] # <<>>

AnyClassDef(b) == b.type = "ClassDef"

\* line 33
IsModelClassDef(b) == b.type = "ClassDef" /\ b.model



NoDefs == [err |-> FALSE, defs |-> <<>>, visits |-> <<>>]
RecursionErrorResult == [err |-> TRUE, defs |-> <<>>, visits |-> <<>>]

\* The result of one invocation on module m at recursion depth d: the class
\* definitions collected, the modules entered in order, and whether the
\* interpreter's recursion limit was hit (RecursionError).
RECURSIVE get_model_class_defs_from_module(_, _, _)
RECURSIVE GetDefsFrom(_, _, _, _)
GetDefsFrom(m, name, d, k) ==
    IF k > Len(lookup(m, name)) THEN NoDefs
    ELSE LET module_node == lookup(m, name)[k]
             head == IF IsModelClassDef(module_node)
                     THEN [NoDefs EXCEPT !.defs = <<ClassObject(m, name, k, module_node.model)>>]
                     ELSE IF module_node.type = "ImportFrom"
                          THEN get_model_class_defs_from_module(module_node.modname, name, d + 1)
                          ELSE NoDefs
         IN  IF head.err THEN head
             ELSE LET rest == GetDefsFrom(m, name, d, k + 1)
                  IN  [err |-> rest.err,
                       defs |-> head.defs \o rest.defs,
                       visits |-> head.visits \o rest.visits]

get_model_class_defs_from_module(m, name, d) ==
    IF d > MaxDepth THEN RecursionErrorResult
    ELSE LET r == GetDefsFrom(m, name, d, 1)
         IN  [r EXCEPT !.visits = <<m>> \o @]

\* line 127
ModuleMatchesByNameOnly(m, model, hint) == InLocals(m, model)

ModuleMatches(m, model, hint) == InLocals(m, model) /\ endswith(m, hint)

\* do_import_module puts the modules it loads into the cache
RECURSIVE Loaded(_, _)
Loaded(cache, ms) ==
    IF ms = <<>> THEN cache
    ELSE Loaded(IF \E k \in 1..Len(cache) : cache[k] = Head(ms)
                THEN cache ELSE Append(cache, Head(ms)),
                Tail(ms))

(***************************************************************************)
(* infer_key_classes                                                       *)
(***************************************************************************)
Event(op, idx, what) == [op |-> op, i |-> idx, what |-> what]

\* lines 58-61
Extract ==
    /\ pc = "start"
    /\ all_args' = chain(node)
    /\ i' = 1
    /\ pc' = "loop"
    /\ UNCHANGED <<node, modules, registry, astroid_cache, key_cls, module_name,
                   model_name, snapshot, j, outcome, log>>

Arg == all_args[i]

InferNeverBreaks(k) == FALSE

\* lines 74-76
InferBreaks(k) == k # NoneValue

\* lines 66-76
InferArg ==
    /\ pc = "loop" /\ i <= Len(all_args)
    /\ Arg.node.type \in {"Name", "Attribute"}
    /\ LET res == Arg.node.inferred
           k == IF res.kind = "value" THEN Value(res.cls) ELSE NoneValue
       IN  /\ key_cls' = k
           /\ log' = Append(log, Event("infer", i, res))
           /\ IF res.kind # "InferenceError" /\ InferBreaks(k)
              THEN pc' = "break" /\ i' = i
              ELSE pc' = "loop" /\ i' = i + 1
    /\ UNCHANGED <<node, modules, registry, astroid_cache, all_args, module_name,
                   model_name, snapshot, j, outcome>>

\* neither branch of lines 66 and 77
SkipArg ==
    /\ pc = "loop" /\ i <= Len(all_args)
    /\ Arg.node.type \notin {"Name", "Attribute", "Const"}
    /\ i' = i + 1
    /\ log' = Append(log, Event("skip", i, Arg.node.type))
    /\ UNCHANGED <<node, modules, registry, astroid_cache, pc, all_args, key_cls,
                   module_name, model_name, snapshot, j, outcome>>

\* lines 77-91
ClassifyConst ==
    /\ pc = "loop" /\ i <= Len(all_args)
    /\ Arg.node.type = "Const"
    /\ LET c == Classify(Arg)
       IN  /\ log' = Append(log, Event("classify", i, c))
           /\ IF c.err
              THEN pc' = "break" /\ UNCHANGED <<module_name, model_name>>
              ELSE /\ pc' = "hint"
                   /\ module_name' = c.module_name
                   /\ model_name' = c.model_name
    /\ UNCHANGED <<node, modules, registry, astroid_cache, all_args, i, key_cls,
                   snapshot, j, outcome>>

\* line 123: the cache is copied and the search starts
StartSearch(hint) ==
    /\ module_name' = hint
    /\ snapshot' = astroid_cache
    /\ j' = 1
    /\ pc' = "scan"
    /\ outcome' = outcome

SearchEvent(hint) ==
    Event("search", i, [model_name |-> model_name, module_name |-> hint,
                        cache |-> astroid_cache])

\* lines 95-100
HintCurrentModule ==
    /\ pc = "hint"
    /\ module_name = EmptyStr
    /\ StartSearch(current_module(1).name)
    /\ log' = Append(log, SearchEvent(current_module(1).name))
    /\ UNCHANGED <<node, modules, registry, astroid_cache, all_args, i, key_cls,
                   model_name>>

\* line 101 is false: the prefix is used as it is
HintModelsPath ==
    /\ pc = "hint"
    /\ module_name # EmptyStr
    /\ ~NeedsRegistry(module_name)
    /\ StartSearch(module_name)
    /\ log' = Append(log, SearchEvent(module_name))
    /\ UNCHANGED <<node, modules, registry, astroid_cache, all_args, i, key_cls,
                   model_name>>

\* lines 101-116
HintRegistry ==
    /\ pc = "hint"
    /\ NeedsRegistry(module_name)
    /\ LET r == ResolveByRegistry(model_name, module_name)
           asked == Event("registry", i, [app_label |-> module_name, model_name |-> model_name])
       IN  IF r.fatal
           THEN /\ outcome' = Raised("RuntimeError")
                /\ pc' = "done"
                /\ log' = Append(log, asked)
                /\ UNCHANGED <<module_name, snapshot, j>>
           ELSE /\ StartSearch(r.module_name)
                /\ log' = log \o <<asked, SearchEvent(r.module_name)>>
    /\ UNCHANGED <<node, modules, registry, astroid_cache, all_args, i, key_cls,
                   model_name>>

\* line 127 is false for this module
ScanSkip ==
    /\ pc = "scan" /\ j <= Len(snapshot)
    /\ ~ModuleMatches(snapshot[j], model_name, module_name)
    /\ j' = j + 1
    /\ log' = Append(log, Event("scan", i, snapshot[j]))
    /\ UNCHANGED <<node, modules, registry, astroid_cache, pc, all_args, i, key_cls,
                   module_name, model_name, snapshot, outcome>>

\* lines 127-131
ScanLocate ==
    /\ pc = "scan" /\ j <= Len(snapshot)
    /\ ModuleMatches(snapshot[j], model_name, module_name)
    /\ LET r == get_model_class_defs_from_module(snapshot[j], model_name, 1)
       IN  /\ log' = log \o <<Event("scan", i, snapshot[j]),
                              Event("locate", i, r)>>
           /\ astroid_cache' = Loaded(astroid_cache, r.visits)
           /\ IF r.err
              THEN outcome' = Raised("RecursionError") /\ pc' = "done" /\ j' = j
              ELSE IF r.defs # <<>>
                   THEN outcome' = Returned(r.defs[1]) /\ pc' = "done" /\ j' = j
                   ELSE outcome' = outcome /\ pc' = "scan" /\ j' = j + 1
    /\ UNCHANGED <<node, modules, registry, all_args, i, key_cls, module_name,
                   model_name, snapshot>>

\* the loop of line 123 ends without a match: next candidate
ScanExhausted ==
    /\ pc = "scan" /\ j > Len(snapshot)
    /\ i' = i + 1
    /\ pc' = "loop"
    /\ UNCHANGED <<node, modules, registry, astroid_cache, all_args, key_cls,
                   module_name, model_name, snapshot, j, outcome, log>>

\* line 134, reached after a break
ReturnKeyCls ==
    IF key_cls = Unbound THEN Raised("UnboundLocalError")
    ELSE IF key_cls = NoneValue THEN Raised("AttributeError")
    ELSE Returned(key_cls.cls)

LoopElseFallsThrough ==
    /\ pc = "loop" /\ i > Len(all_args)
    /\ outcome' = ReturnKeyCls
    /\ pc' = "done"
    /\ UNCHANGED <<node, modules, registry, astroid_cache, all_args, i, key_cls,
                   module_name, model_name, snapshot, j, log>>

\* lines 132-133: the loop ended without a break
LoopElse ==
    /\ pc = "loop" /\ i > Len(all_args)
    /\ outcome' = Raised("UseInferenceDefault")
    /\ pc' = "done"
    /\ UNCHANGED <<node, modules, registry, astroid_cache, all_args, i, key_cls,
                   module_name, model_name, snapshot, j, log>>

\* line 134
AfterBreak ==
    /\ pc = "break"
    /\ outcome' = ReturnKeyCls
    /\ pc' = "done"
    /\ UNCHANGED <<node, modules, registry, astroid_cache, all_args, i, key_cls,
                   module_name, model_name, snapshot, j, log>>

(***************************************************************************)
(* Initial states: a call for which is_foreignkey_in_class holds, the      *)
(* modules astroid can import and the modules it has loaded so far.        *)
(***************************************************************************)
CallNodes ==
    {CallNode(a, k) : a \in SeqsUpTo(ArgNodes, MaxArgs),
                      k \in SeqsUpTo(Keywords, MaxKeywords)}

\* calls with one string argument
StringCalls ==
    {CallNode(<<c>>, <<>>) : c \in StringConsts}
    \cup {CallNode(<<>>, <<KeywordNode(ToKw, ConstNode(StrValue(SelfStr)))>>)}

\* the name a string argument looks up
SearchedName(call) ==
    IF call.args # <<>> /\ call.args[1].value # StrValue(SelfStr) THEN NameB ELSE NameA

Registries == {"ImproperlyConfigured", "LookupError", "found"}

\* every order of every set of loaded modules
Caches ==
    {c \in SeqsUpTo(ModuleNames, Cardinality(ModuleNames)) :
        \A a, b \in 1..Len(c) : a # b => c[a] # c[b]}

Bindings(a, b) == (NameA :> a) @@ (NameB :> b)

\* two fixed module sets, for calls of any shape
PlainModules ==
    (AppModels :> Bindings(<<ClassDefNode(TRUE)>>, <<ClassDefNode(TRUE)>>))
    @@ (MyAppModels :> Bindings(<<>>, <<>>))
    @@ (AppBase :> Bindings(<<>>, <<ClassDefNode(TRUE)>>))

ForwardingModules ==
    (AppModels :> Bindings(<<ClassDefNode(TRUE)>>, <<ImportFromNode(AppBase)>>))
    @@ (MyAppModels :> Bindings(<<>>, <<ClassDefNode(TRUE)>>))
    @@ (AppBase :> Bindings(<<>>, <<ClassDefNode(TRUE)>>))

\* any bindings of the searched name; the other name only names class A
ModulesFor(name) ==
    {[m \in ModuleNames |->
        IF name = NameA THEN Bindings(f[m], <<>>)
        ELSE Bindings(IF m = CurrentModuleName THEN <<ClassDefNode(TRUE)>> ELSE <<>>, f[m])] :
     f \in [ModuleNames -> BindingLists]}

InitLocals ==
    /\ pc = "start"
    /\ all_args = <<>>
    /\ i = 0
    /\ key_cls = Unbound
    /\ module_name = EmptyStr
    /\ model_name = EmptyStr
    /\ snapshot = <<>>
    /\ j = 0
    /\ outcome = NoOutcome
    /\ log = <<>>

InitAnyCall ==
    /\ node \in CallNodes
    /\ registry \in Registries
    /\ \/ modules = PlainModules /\ astroid_cache = <<AppModels, AppBase>>
       \/ modules = ForwardingModules /\ astroid_cache = <<MyAppModels, AppModels>>

InitAnyModules ==
    /\ node \in StringCalls
    /\ registry \in (IF node.args # <<>> /\ NeedsRegistry(Classify(chain(node)[1]).module_name)
                     THEN Registries ELSE {"LookupError"})
    /\ modules \in ModulesFor(SearchedName(node))
    /\ astroid_cache \in Caches

Init == InitLocals /\ (InitAnyCall \/ InitAnyModules)

Next ==
    \/ Extract
    \/ InferArg
    \/ SkipArg
    \/ ClassifyConst
    \/ HintCurrentModule
    \/ HintModelsPath
    \/ HintRegistry
    \/ ScanSkip
    \/ ScanLocate
    \/ ScanExhausted
    \/ LoopElse
    \/ AfterBreak

Spec == Init /\ [][Next]_vars

(***************************************************************************)
(* Vocabulary of the properties                                            *)
(***************************************************************************)
Done == pc = "done"
Range(f) == {f[k] : k \in DOMAIN f}
LogEvents(op) == {e \in Range(log) : e.op = op}
NoDuplicates(f) == \A a, b \in DOMAIN f : a # b => f[a] # f[b]

IsStringConst(n) == n.type = "Const" /\ n.value.type = "str"
IsSelf(n) == IsStringConst(n) /\ n.value.chars = SelfStr
IsBare(n) == IsStringConst(n) /\ ~IsSelf(n) /\ \A k \in DOMAIN n.value.chars : n.value.chars[k] # Dot

\* the module hint lines 95-116 derive from a classified string
HintOf(c) ==
    IF c.module_name = EmptyStr THEN [fatal |-> FALSE, module_name |-> current_module(1).name]
    ELSE IF NeedsRegistry(c.module_name) THEN ResolveByRegistry(c.model_name, c.module_name)
    ELSE [fatal |-> FALSE, module_name |-> c.module_name]

\* what the loop of lines 123-131 finds in a cache
RECURSIVE FirstFound(_, _, _, _)
FirstFound(cache, k, name, hint) ==
    IF k > Len(cache) THEN NoDefs
    ELSE IF ModuleMatches(cache[k], name, hint)
         THEN LET r == get_model_class_defs_from_module(cache[k], name, 1)
              IN  IF r.err \/ r.defs # <<>> THEN r
                  ELSE FirstFound(cache, k + 1, name, hint)
         ELSE FirstFound(cache, k + 1, name, hint)

\* what the search for candidate b would find, were it run now
WouldFind(b) ==
    IF ~IsStringConst(all_args[b].node) THEN NoDefs
    ELSE LET c == Classify(all_args[b])
         IN  IF c.err \/ HintOf(c).fatal THEN NoDefs
             ELSE FirstFound(astroid_cache, 1, c.model_name, HintOf(c).module_name)

Locatable(b) == ~WouldFind(b).err /\ WouldFind(b).defs # <<>>

\* the cached modules that define a model class called name
Defining(cache, name) ==
    {m \in Range(cache) : \E k \in DOMAIN modules[m][name] :
        modules[m][name][k].type = "ClassDef" /\ modules[m][name][k].model}

Importing(cache, name) ==
    {m \in Range(cache) : \E k \in DOMAIN modules[m][name] :
        modules[m][name][k].type = "ImportFrom"}

\* two cached modules define the class and exactly one of them matches the hint
OneOfTwoMatches(e) ==
    LET D == Defining(e.what.cache, e.what.model_name)
    IN  /\ Cardinality(D) = 2
        /\ Cardinality({m \in D : endswith(m, e.what.module_name)}) = 1

ReturnedFrom(ms, name) ==
    /\ outcome.kind = "return"
    /\ Len(outcome.value) = 1
    /\ outcome.value[1].instance_of.mod \in ms
    /\ outcome.value[1].instance_of.name = name

\* the class a chain of single from-imports of name, starting in m, ends at
NoChain == [ok |-> FALSE, cls |-> ClassObject(EmptyStr, EmptyStr, 0, FALSE)]
RECURSIVE ChainEnd(_, _, _)
ChainEnd(m, name, fuel) ==
    LET b == modules[m][name]
    IN  IF Len(b) # 1 THEN NoChain
        ELSE IF b[1].type = "ClassDef"
             THEN IF b[1].model THEN [ok |-> TRUE, cls |-> ClassObject(m, name, 1, TRUE)]
                  ELSE NoChain
             ELSE IF b[1].type = "ImportFrom" /\ fuel > 0
                  THEN ChainEnd(b[1].modname, name, fuel - 1)
                  ELSE NoChain

Forwards(m, name) ==
    /\ Len(modules[m][name]) = 1
    /\ modules[m][name][1].type = "ImportFrom"
    /\ ChainEnd(m, name, Cardinality(ModuleNames) - 1).ok

ForwardedClass(m, name) == ChainEnd(m, name, Cardinality(ModuleNames) - 1).cls

\* the first module of a cache that binds name and whose path ends with hint
FirstBinder(cache, name, hint) ==
    LET I == {k \in DOMAIN cache : modules[cache[k]][name] # <<>> /\ endswith(cache[k], hint)}
    IN  IF I = {} THEN 0 ELSE CHOOSE k \in I : \A l \in I : k <= l

(***************************************************************************)
(* C1: a call in the body of class A whose target is "self", positional    *)
(* or as the `to` keyword, returns exactly one value, an instance of A,    *)
(* whatever the module cache holds besides A's module and in any order.    *)
(***************************************************************************)
C1_SelfResolvesToEnclosingClass ==
    (/\ Done
     /\ Len(all_args) >= 1 /\ IsSelf(all_args[1].node)
     /\ modules[CurrentModuleName][NameA] = <<ClassDefNode(TRUE)>>
     /\ \E e \in LogEvents("search") : e.i = 1 /\ CurrentModuleName \in Range(e.what.cache))
    => outcome = Returned(EnclosingClass)

(***************************************************************************)
(* C2: when classifying a literal constant raises AttributeError, no       *)
(* further candidate is tried and the call ends with UseInferenceDefault.  *)
(***************************************************************************)
C2_NonStringConstDeclines ==
    (Done /\ \E e \in LogEvents("classify") : e.what.err)
    => /\ outcome = Raised("UseInferenceDefault")
       /\ \A e \in LogEvents("classify") : e.what.err => \A f \in Range(log) : f.i <= e.i

C4_LocatorVisitsEachModuleOnce ==
    \A e \in LogEvents("locate") : ~e.what.err /\ NoDuplicates(e.what.visits)

C6_MissingConfigurationIsFatal ==
    Done =>
        \A e \in LogEvents("classify") :
            (/\ ~e.what.err
             /\ e.what.module_name # EmptyStr
             /\ ~endswith(e.what.module_name, Models)
             /\ registry = "ImproperlyConfigured")
            => /\ outcome = Raised("RuntimeError")
               /\ \A f \in Range(log) :
                    /\ f.i <= e.i
                    /\ f.i = e.i => f.op \notin {"search", "scan", "locate"}

C6_Witness ==
    /\ Done
    /\ outcome = Raised("RuntimeError")
    /\ \E e \in LogEvents("classify") : e.i < Len(all_args)
    /\ astroid_cache # <<>>

(***************************************************************************)
(* C7: for a literal "p.C" split at its last dot: when p ends with         *)
(* "models" the registry is not asked and the hint is p; otherwise the     *)
(* registry is asked for (p, C) and the hint is the module of the          *)
(* registered class, or p + ".models" when the lookup fails; either way    *)
(* the cache is searched with (C, hint).                                   *)
(***************************************************************************)
SearchedWith(idx, name, hint) ==
    \E f \in LogEvents("search") :
        f.i = idx /\ f.what.model_name = name /\ f.what.module_name = hint

AskedRegistry(idx) == \E f \in LogEvents("registry") : f.i = idx

C7_QualifiedReferenceHint ==
    Done =>
        \A e \in LogEvents("classify") :
            LET s == all_args[e.i].node.value.chars IN
            \A k \in DOMAIN s :
                LET p == SubSeq(s, 1, k - 1)
                    C == SubSeq(s, k + 1, Len(s))
                IN  (/\ IsStringConst(all_args[e.i].node)
                     /\ s[k] = Dot /\ (\A l \in DOMAIN C : C[l] # Dot)
                     /\ p # EmptyStr)
                    => IF endswith(p, Models)
                       THEN ~AskedRegistry(e.i) /\ SearchedWith(e.i, C, p)
                       ELSE /\ \E f \in LogEvents("registry") :
                                 f.i = e.i /\ f.what = [app_label |-> p, model_name |-> C]
                            /\ registry = "found" => SearchedWith(e.i, C, RegisteredModule)
                            /\ registry = "LookupError"
                               => SearchedWith(e.i, C, p \o <<Dot>> \o Models)

C7_Witness ==
    /\ Done
    /\ registry = "LookupError"
    /\ \E e \in LogEvents("registry") :
        /\ SearchedWith(e.i, NameB, AppModels)
        /\ \E f \in LogEvents("scan") : f.i = e.i

(***************************************************************************)
(* C8: an InferenceError or an empty inference on a name or attribute      *)
(* candidate does not end the resolution, the next candidate is tried; and *)
(* when every candidate has been tried and none matched, the call ends     *)
(* with UseInferenceDefault.                                               *)
(***************************************************************************)
NothingMatched ==
    /\ \A e \in LogEvents("infer") : e.what.kind # "value"
    /\ \A e \in LogEvents("classify") : ~e.what.err
    /\ \A e \in LogEvents("locate") : ~e.what.err /\ e.what.defs = <<>>
    /\ ~(registry = "ImproperlyConfigured" /\ LogEvents("registry") # {})

C8_DeclineWhenNothingMatches ==
    Done =>
        /\ \A e \in LogEvents("infer") :
            e.what.kind # "value"
            => IF e.i < Len(all_args)
               THEN \E f \in Range(log) : f.i = e.i + 1
               ELSE outcome = Raised("UseInferenceDefault")
        /\ NothingMatched
           => /\ outcome = Raised("UseInferenceDefault")
              /\ \A a \in DOMAIN all_args : \E f \in Range(log) : f.i = a

C8_Witness ==
    /\ Done
    /\ outcome = Raised("UseInferenceDefault")
    /\ \E e \in LogEvents("infer") : e.what.kind = "InferenceError"
    /\ \E e \in LogEvents("scan") : TRUE

(***************************************************************************)
(* C9: the candidates are the positional arguments from left to right,     *)
(* then the values of the keywords called `to`, and no other keyword; they *)
(* are examined in that order; the first string literal for which the      *)
(* locator returns classes gives the result, an instance of the first      *)
(* class returned, and nothing is examined after it.                       *)
(***************************************************************************)
ToKeywordIndexes == {k \in DOMAIN node.keywords : node.keywords[k].arg = ToKw}
NthToKeyword(q) ==
    node.keywords[CHOOSE k \in ToKeywordIndexes :
                    Cardinality({l \in ToKeywordIndexes : l <= k}) = q]

C9_CandidateOrderAndFirstMatch ==
    /\ pc # "start" =>
        /\ Len(all_args) = Len(node.args) + Cardinality(ToKeywordIndexes)
        /\ \A k \in DOMAIN node.args : all_args[k].node = node.args[k]
        /\ \A q \in 1..Cardinality(ToKeywordIndexes) :
            all_args[Len(node.args) + q].node = NthToKeyword(q).value
    /\ \A a, b \in DOMAIN log : a <= b => log[a].i <= log[b].i
    /\ \A a \in DOMAIN log : log[a].i > 1 => \E b \in 1..a : log[b].i = log[a].i - 1
    /\ \A a \in DOMAIN log :
        (log[a].op = "locate" /\ ~log[a].what.err /\ log[a].what.defs # <<>>)
        => /\ a = Len(log)
           /\ Done
           /\ outcome = Returned(log[a].what.defs[1])

C9_Witness ==
    /\ Done
    /\ log # <<>>
    /\ log[Len(log)].op = "locate"
    /\ log[Len(log)].i < Len(all_args)
    /\ outcome = Returned(log[Len(log)].what.defs[1])
    /\ \E k \in DOMAIN node.keywords : node.keywords[k].arg # ToKw

(***************************************************************************)
(* C10 as claimed: when a cached module that matches the hint binds the    *)
(* searched name only through a chain of from-imports, a bare reference    *)
(* resolves to the model class at the end of the chain; a class that is    *)
(* not a model is never returned by the locator.                           *)
(***************************************************************************)
LocatorReturnsOnlyModels ==
    \A e \in LogEvents("locate") : \A k \in DOMAIN e.what.defs : e.what.defs[k].model

====
